---------------------------- MODULE Spec2Model ----------------------------
(***************************************************************************)
(* Forecast pipeline of run-forecast-panguweather.                         *)
(*                                                                         *)
(* Two scheduling variants are modelled from the two scripts:              *)
(*   "worker"    src/run_and_sync_forecast_PG.py: the main thread runs the *)
(*               forecasts and appends to pending_uploads, a background    *)
(*               thread (upload_worker) polls, uploads and removes;        *)
(*   "lookahead" src/run_and_sync_forecast_PG_2020_1.py: one thread keeps  *)
(*               forecast_queue and calls subset_and_upload synchronously. *)
(*                                                                         *)
(* Dates are numbered 1, 2, ...: start_date is date 1 and end_date is the  *)
(* number of dates K of the inclusive range.  A file name is identified    *)
(* with the date it is built from.  File sizes are counted in blocks:      *)
(* CHUNK_SIZE and min_size_bytes keep the order they have in the source    *)
(* (min_size_bytes > CHUNK_SIZE), and time is counted in idle windows.     *)
(***************************************************************************)
EXTENDS Integers, Sequences, FiniteSets, TLC

\* ---------------------------------------------------------------- bounds
MaxDates    == 3    \* longest date range explored
MaxSize     == 5    \* largest file, in blocks
MaxFailures == 1    \* remote calls that may raise in one run
MaxFairDates == 2   \* longest date range explored for the liveness properties

\* ------------------------------------------------------ program constants
CHUNK_SIZE     == 2    \* upload_result_to_dropbox: CHUNK_SIZE, in blocks
min_size_bytes == 3    \* is_file_stable: default min_size_bytes, in blocks
idle_seconds   == 1    \* is_file_stable: default idle_seconds, in idle windows
W              == 2    \* run_forecasts (lookahead): range(2)

Dates == 1..(MaxDates + 1)

Min(a, b) == IF a < b THEN a ELSE b

VARIABLES
    variant,          \* which script runs
    end_date,         \* last date of the range (start_date is date 1)
    pc,               \* position of the main thread
    results,          \* GRIB files in LOCAL_RESULTS_PATH, by date
    bundles,          \* zip bundles in LOCAL_RESULTS_PATH, by date
    remote,           \* remote store: per target path, the commits, the size
                      \* and the call that committed (via)
    failures,         \* remote calls that raised so far
    \* worker variant
    pending_uploads, uploaded, uploads_done, start_date,
    wpc,              \* position of upload_worker
    snapshot, idx,    \* list(pending_uploads) and the for-loop's position
    \* lookahead variant
    forecast_queue, next_date, boot_i, grib_to_process,
    \* history (read by the properties only)
    generated,        \* dates of the generation calls, in call order
    transferred,      \* dates whose upload was committed, in commit order
    attempts,         \* transfer calls per date
    failed,           \* dates with a transfer call that raised
    checked,          \* dates for which is_file_stable returned True
    handed,           \* dates handed to subset_and_upload / upload_result_to_dropbox
    removals,         \* pending_uploads.remove(fname) that removed, per date
    sleeps,           \* time.sleep(5) begun since the drain condition held
    \* one call of upload_result_to_dropbox, replayed against the remote store
    e_pc,             \* "off", "calls", "done" (returned) or "raised"
    e_size,           \* os.path.getsize(local_file)
    e_failAt,         \* the remote call that raises (0: none)
    e_sent,           \* the remote calls acknowledged so far
    e_session,        \* bytes the upload session holds
    e_target,         \* the object at dropbox_target_path
    e_local,          \* whether local_file exists
    \* one call of is_file_stable
    s_file,           \* the file at path
    s_result          \* what the call returned

vars == << variant, end_date, pc, results, bundles, remote, failures,
           pending_uploads, uploaded, uploads_done, start_date, wpc,
           snapshot, idx, forecast_queue, next_date, boot_i, grib_to_process,
           generated, transferred, attempts, failed, checked, handed,
           removals, sleeps, e_pc, e_size, e_failAt, e_sent, e_session,
           e_target, e_local, s_file, s_result >>

unitVars   == << e_pc, e_size, e_failAt, e_sent, e_session, e_target,
                 e_local, s_file, s_result >>
mainVars   == << pc, start_date, uploads_done >>
workerVars == << wpc, snapshot, idx, uploaded >>
lookVars   == << forecast_queue, next_date, boot_i, grib_to_process >>
histVars   == << generated, transferred, attempts, failed, checked, handed, removals >>

\* ------------------------------------------------------------ file system
NoFile == [state |-> "none", size |-> 0, age |-> 0]

\* Sizes of the GRIB the generator writes: one block below the stability
\* threshold, at it, and the largest file (several chunks).
GribSizes == {min_size_bytes - 1, min_size_bytes, MaxSize}

\* What the external generator leaves at output_path when subprocess.run
\* returns: nothing (its exit status is not read), or a file of some size.
GenOutcomes ==
    {[state |-> "missing", size |-> 0, age |-> 0]} \cup
    {[state |-> "present", size |-> s, age |-> 0] : s \in GribSizes}

\* Sizes of the zip bundle subset_and_upload writes: at the one-request
\* threshold of the transfer engine, and above it.
BundleSizes == {CHUNK_SIZE, CHUNK_SIZE + 1}

isfile(f) == f.state = "present"

\* Mutant: the two thresholds are joined by or.
is_file_stable_either(f) ==
    IF ~isfile(f) THEN FALSE
    ELSE f.size >= min_size_bytes \/ f.age >= idle_seconds

\* Mutant: only the idle time is tested.
is_file_stable_idle(f) ==
    IF ~isfile(f) THEN FALSE
    ELSE f.age >= idle_seconds

is_file_stable(f) ==
    IF ~isfile(f) THEN FALSE      \* os.stat raises FileNotFoundError
    ELSE f.size >= min_size_bytes /\ f.age >= idle_seconds


\* -------------------------------------------------------- transfer engine
\* A remote call: op is "upload" (files_upload), "start"
\* (files_upload_session_start), "append" (files_upload_session_append_v2)
\* or "finish" (files_upload_session_finish); len is the length of the data
\* it carries and offset is cursor.offset at the call.
Call(op, len, offset) == [op |-> op, len |-> len, offset |-> offset]

\* Mutant: the loop's test f.tell() < file_size is inverted, so the first
\* chunk read in the loop is sent with session_finish.
ChunkLoopFinishFirst(file_size, pos, offset, calls) ==
    LET chunk == Min(CHUNK_SIZE, file_size - pos)
    IN  IF chunk = 0 THEN calls
        ELSE Append(calls, Call("finish", chunk, offset))

\* Mutant: every chunk read in the loop is appended, and the session is
\* finished with the empty read at end of file.
RECURSIVE ChunkLoopAppendAll(_, _, _, _)
ChunkLoopAppendAll(file_size, pos, offset, calls) ==
    LET chunk == Min(CHUNK_SIZE, file_size - pos)
        tell  == pos + chunk
    IN  IF chunk = 0 THEN Append(calls, Call("finish", 0, offset))
        ELSE ChunkLoopAppendAll(file_size, tell, tell,
                                Append(calls, Call("append", chunk, offset)))

\* Mutant: cursor.offset = f.tell() is left out after an append.
RECURSIVE ChunkLoopStaleOffset(_, _, _, _)
ChunkLoopStaleOffset(file_size, pos, offset, calls) ==
    LET chunk == Min(CHUNK_SIZE, file_size - pos)
        tell  == pos + chunk
    IN  IF chunk = 0 THEN calls
        ELSE IF tell < file_size
             THEN ChunkLoopStaleOffset(file_size, tell, offset,
                            Append(calls, Call("append", chunk, offset)))
             ELSE Append(calls, Call("finish", chunk, offset))

\* The while True loop of upload_result_to_dropbox.  pos is f.tell() before
\* the read, offset is cursor.offset, calls are the calls made so far.
RECURSIVE ChunkLoop(_, _, _, _)
ChunkLoop(file_size, pos, offset, calls) ==
    LET chunk == Min(CHUNK_SIZE, file_size - pos)      \* len(f.read(CHUNK_SIZE))
        tell  == pos + chunk
    IN  IF chunk = 0 THEN calls                        \* if not chunk: break
        ELSE IF tell < file_size
             THEN ChunkLoop(file_size, tell, tell,
                            Append(calls, Call("append", chunk, offset)))
             ELSE Append(calls, Call("finish", chunk, offset))

\* Mutant: the size test is file_size < CHUNK_SIZE, so a file of exactly
\* CHUNK_SIZE takes the session branch.
RemoteCallsStrict(file_size) ==
    IF file_size < CHUNK_SIZE
    THEN << Call("upload", file_size, 0) >>
    ELSE LET first == Min(CHUNK_SIZE, file_size)
         IN  ChunkLoop(file_size, first, first, << Call("start", first, 0) >>)

\* The remote calls upload_result_to_dropbox makes for a file of file_size
\* blocks when none of them raises.
RemoteCalls(file_size) ==
    IF file_size <= CHUNK_SIZE
    THEN << Call("upload", file_size, 0) >>
    ELSE LET first == Min(CHUNK_SIZE, file_size)
         IN  ChunkLoop(file_size, first, first, << Call("start", first, 0) >>)

RECURSIVE SumLen(_)
SumLen(calls) == IF calls = << >> THEN 0 ELSE Head(calls).len + SumLen(Tail(calls))

Commits(calls) == \E i \in 1..Len(calls) : calls[i].op \in {"upload", "finish"}

\* Mutant: os.remove(local_file) runs whether or not a remote call raised
\* (as in a finally clause).
upload_removes_always(file_size, failAt) ==
    LET calls  == RemoteCalls(file_size)
        raised == failAt \in 1..Len(calls)
        acked  == IF raised THEN SubSeq(calls, 1, failAt - 1) ELSE calls
    IN  [ raised    |-> raised,
          acked     |-> acked,
          committed |-> Commits(acked),
          size      |-> IF Commits(acked) THEN SumLen(acked) ELSE 0,
          removed   |-> TRUE ]

\* upload_result_to_dropbox on a file of file_size blocks whose failAt-th
\* remote call raises (0: none does).  acked are the calls the remote store
\* acknowledged; the exception leaves the function before os.remove.
upload_result_to_dropbox(file_size, failAt) ==
    LET calls  == RemoteCalls(file_size)
        raised == failAt \in 1..Len(calls)
        acked  == IF raised THEN SubSeq(calls, 1, failAt - 1) ELSE calls
    IN  [ raised    |-> raised,
          acked     |-> acked,
          committed |-> Commits(acked),
          size      |-> IF Commits(acked) THEN SumLen(acked) ELSE 0,
          removed   |-> ~raised ]

\* The remote store after a transfer call on target path d.
Store(rem, d, r) ==
    IF r.committed
    THEN [rem EXCEPT ![d] = [commits |-> @.commits + 1, size |-> r.size,
                             via |-> r.acked[Len(r.acked)].op]]
    ELSE rem

\* The local file after a transfer call.
Unlink(files, d, r) ==
    IF r.removed THEN [files EXCEPT ![d].state = "deleted"] ELSE files

\* Mutant: pending_uploads.pop(0) in place of pending_uploads.remove(fname).
PopHead(s, x) == IF s = << >> THEN << >> ELSE Tail(s)

RECURSIVE RemoveFirst(_, _)
\* list.remove(x): drops the first occurrence (the caller catches ValueError
\* when there is none).
RemoveFirst(s, x) ==
    IF s = << >> THEN << >>
    ELSE IF Head(s) = x THEN Tail(s)
    ELSE << Head(s) >> \o RemoveFirst(Tail(s), x)

InSeq(s, x) == \E i \in 1..Len(s) : s[i] = x

\* ------------------------------------------------------------------ Init
\* No remote object at the target path.
Absent == [exists |-> FALSE, content |-> << >>]

\* The module-level state of either script when __main__ starts.
PipelineStart ==
    /\ pc = "download"
    /\ results = [d \in Dates |-> NoFile]
    /\ bundles = [d \in Dates |-> NoFile]
    /\ remote = [d \in Dates |-> [commits |-> 0, size |-> 0, via |-> "none"]]
    /\ failures = 0
    /\ pending_uploads = << >>
    /\ uploaded = {}
    /\ uploads_done = FALSE
    /\ start_date = 1
    /\ wpc = "unstarted"
    /\ snapshot = << >>
    /\ idx = 1
    /\ forecast_queue = << >>
    /\ next_date = 1
    /\ boot_i = 0
    /\ grib_to_process = 0
    /\ generated = << >>
    /\ transferred = << >>
    /\ attempts = [d \in Dates |-> 0]
    /\ failed = {}
    /\ checked = {}
    /\ handed = {}
    /\ removals = [d \in Dates |-> 0]
    /\ sleeps = 0

\* No single call is replayed.
UnitOff ==
    /\ e_pc = "off"
    /\ e_size = 0
    /\ e_failAt = 0
    /\ e_sent = << >>
    /\ e_session = << >>
    /\ e_target = Absent
    /\ e_local = FALSE
    /\ s_file = NoFile
    /\ s_result = "none"

Init ==
    /\ variant \in {"worker", "lookahead"}
    /\ end_date \in 1..MaxDates
    /\ PipelineStart
    /\ UnitOff

\* -------------------------------------------------------------- __main__
\* download_folder(dbx, DROPBOX_ASSETS_PATH, LOCAL_ASSETS_PATH): the initial
\* asset sync.  A remote fault is not caught and ends the process.
Download ==
    /\ pc = "download"
    /\ \/ pc' = IF variant = "worker" THEN "thread_start" ELSE "boot"
       \/ pc' = "aborted"
    /\ UNCHANGED << unitVars, variant, end_date, results, bundles, remote, failures,
                    pending_uploads, uploads_done, start_date, workerVars,
                    lookVars, histVars, sleeps >>

\* Time passes: every file on disk grows older (up to the idle window).
\* Only the worker script reads a modification time.
Tick ==
    /\ variant = "worker"
    /\ \E d \in Dates : isfile(results[d]) /\ results[d].age < idle_seconds
    /\ results' = [d \in Dates |->
                     IF isfile(results[d])
                     THEN [results[d] EXCEPT !.age = Min(@ + 1, idle_seconds)]
                     ELSE results[d]]
    /\ UNCHANGED << unitVars, variant, end_date, pc, bundles, remote, failures,
                    pending_uploads, uploads_done, start_date, workerVars,
                    lookVars, histVars, sleeps >>

\* Mutant: uploads_done.set() is placed before run_forecasts().
StartThreadSetsDone ==
    /\ variant = "worker"
    /\ pc = "thread_start"
    /\ pc' = "forecast"
    /\ wpc' = "while"
    /\ uploads_done' = TRUE
    /\ UNCHANGED << unitVars, variant, end_date, results, bundles, remote, failures,
                    pending_uploads, start_date, snapshot, idx,
                    uploaded, lookVars, histVars, sleeps >>

\* ------------------------------------------ worker variant: main thread
\* uploader_thread = threading.Thread(target=upload_worker); .start()
StartThread ==
    /\ variant = "worker"
    /\ pc = "thread_start"
    /\ pc' = "forecast"
    /\ wpc' = "while"
    /\ UNCHANGED << unitVars, variant, end_date, results, bundles, remote, failures,
                    pending_uploads, uploads_done, start_date, snapshot, idx,
                    uploaded, lookVars, histVars, sleeps >>

\* run_forecasts (worker variant): one iteration of
\* while start_date <= end_date: subprocess.run, pending_uploads.append,
\* start_date += 1; the loop's exit returns to __main__.
Forecast ==
    /\ variant = "worker"
    /\ pc = "forecast"
    /\ IF start_date <= end_date
       THEN /\ \E out \in GenOutcomes :
                    results' = [results EXCEPT ![start_date] = out]
            /\ generated' = Append(generated, start_date)
            /\ pending_uploads' = Append(pending_uploads, start_date)
            /\ start_date' = start_date + 1
            /\ pc' = pc
       ELSE /\ pc' = "set"
            /\ UNCHANGED << results, generated, pending_uploads, start_date >>
    /\ UNCHANGED << unitVars, variant, end_date, bundles, remote, failures, uploads_done,
                    workerVars, lookVars, transferred, attempts, failed,
                    checked, handed, removals, sleeps >>

\* uploads_done.set()
SetDone ==
    /\ variant = "worker"
    /\ pc = "set"
    /\ uploads_done' = TRUE
    /\ pc' = "join"
    /\ UNCHANGED << unitVars, variant, end_date, results, bundles, remote, failures,
                    pending_uploads, start_date, workerVars, lookVars,
                    histVars, sleeps >>

\* uploader_thread.join() returns once upload_worker has returned.
Join ==
    /\ variant = "worker"
    /\ pc = "join"
    /\ wpc = "exited"
    /\ pc' = "finished"
    /\ UNCHANGED << unitVars, variant, end_date, results, bundles, remote, failures,
                    pending_uploads, uploads_done, start_date, workerVars,
                    lookVars, histVars, sleeps >>

\* ----------------------------------------- worker variant: upload_worker
\* while not uploads_done.is_set() or pending_uploads: the left operand.
W_While ==
    /\ wpc = "while"
    /\ wpc' = IF ~uploads_done THEN "scan" ELSE "while_pending"
    /\ UNCHANGED << unitVars, variant, end_date, results, bundles, remote, failures,
                    pending_uploads, mainVars, snapshot, idx, uploaded,
                    lookVars, histVars, sleeps >>

\* Mutant: while not uploads_done.is_set(): the pending list is not read.
W_WhilePending_NotRead ==
    /\ wpc = "while_pending"
    /\ wpc' = "exited"
    /\ UNCHANGED << unitVars, variant, end_date, results, bundles, remote, failures,
                    pending_uploads, mainVars, snapshot, idx, uploaded,
                    lookVars, histVars, sleeps >>

\* Mutant: while True: the loop has no exit.
W_WhilePending_NoExit ==
    /\ wpc = "while_pending"
    /\ wpc' = "scan"
    /\ UNCHANGED << unitVars, variant, end_date, results, bundles, remote, failures,
                    pending_uploads, mainVars, snapshot, idx, uploaded,
                    lookVars, histVars, sleeps >>

\* ... the right operand, read only when the event is set.
W_WhilePending ==
    /\ wpc = "while_pending"
    /\ wpc' = IF pending_uploads # << >> THEN "scan" ELSE "exited"
    /\ UNCHANGED << unitVars, variant, end_date, results, bundles, remote, failures,
                    pending_uploads, mainVars, snapshot, idx, uploaded,
                    lookVars, histVars, sleeps >>

\* Mutant: the worker takes the list over: it copies pending_uploads and
\* clears it.
W_ScanDrains ==
    /\ wpc = "scan"
    /\ snapshot' = pending_uploads
    /\ pending_uploads' = << >>
    /\ idx' = 1
    /\ wpc' = "for"
    /\ UNCHANGED << unitVars, variant, end_date, results, bundles, remote, failures,
                    mainVars, uploaded, lookVars, histVars, sleeps >>

\* for fname in list(pending_uploads): the copy.
W_Scan ==
    /\ wpc = "scan"
    /\ snapshot' = pending_uploads
    /\ idx' = 1
    /\ wpc' = "for"
    /\ UNCHANGED << unitVars, variant, end_date, results, bundles, remote, failures,
                    pending_uploads, mainVars, uploaded, lookVars, histVars,
                    sleeps >>

\* One step of the for loop: the next fname, the continue of line 101 and
\* the is_file_stable test of line 104.
W_For ==
    /\ wpc = "for"
    /\ IF idx > Len(snapshot)
       THEN /\ wpc' = "sleep"
            /\ UNCHANGED << idx, checked >>
       ELSE LET fname == snapshot[idx] IN
            IF fname \in uploaded \/ ~isfile(results[fname])
            THEN /\ idx' = idx + 1
                 /\ UNCHANGED << wpc, checked >>
            ELSE IF is_file_stable(results[fname])
                 THEN /\ wpc' = "upload"
                      /\ checked' = checked \cup {fname}
                      /\ idx' = idx
                 ELSE /\ idx' = idx + 1
                      /\ UNCHANGED << wpc, checked >>
    /\ UNCHANGED << unitVars, variant, end_date, results, bundles, remote, failures,
                    pending_uploads, mainVars, snapshot, uploaded, lookVars,
                    generated, transferred, attempts, failed, handed,
                    removals, sleeps >>

\* Mutant: no try/except around the upload; the exception ends the thread.
UploadHandlerUncaught(raised) == IF raised THEN "crashed" ELSE "add"

\* try: ... except Exception as e: print(...): where upload_worker goes on
\* after upload_result_to_dropbox returned or raised.
UploadHandler(raised) == IF raised THEN "for" ELSE "add"

\* try: upload_result_to_dropbox(local_path) ... except Exception: the call,
\* with a remote call that raises or none.
W_Upload ==
    /\ wpc = "upload"
    /\ LET fname == snapshot[idx]
           n     == Len(RemoteCalls(results[fname].size))
       IN  \E failAt \in 0..n :
             /\ failAt > 0 => failures < MaxFailures
             /\ LET r == upload_result_to_dropbox(results[fname].size, failAt) IN
                /\ results' = Unlink(results, fname, r)
                /\ remote' = Store(remote, fname, r)
                /\ transferred' = IF r.committed THEN Append(transferred, fname)
                                  ELSE transferred
                /\ attempts' = [attempts EXCEPT ![fname] = @ + 1]
                /\ handed' = handed \cup {fname}
                /\ wpc' = UploadHandler(r.raised)
                /\ IF r.raised
                   THEN /\ failed' = failed \cup {fname}
                        /\ failures' = failures + 1
                        /\ idx' = idx + 1
                   ELSE UNCHANGED << failed, failures, idx >>
    /\ UNCHANGED << unitVars, variant, end_date, bundles, pending_uploads, mainVars,
                    snapshot, uploaded, lookVars, generated, checked,
                    removals, sleeps >>

\* uploaded.add(fname)
W_Add ==
    /\ wpc = "add"
    /\ uploaded' = uploaded \cup {snapshot[idx]}
    /\ wpc' = "remove"
    /\ UNCHANGED << unitVars, variant, end_date, results, bundles, remote, failures,
                    pending_uploads, mainVars, snapshot, idx, lookVars,
                    histVars, sleeps >>

\* pending_uploads.remove(fname)
W_Remove ==
    /\ wpc = "remove"
    /\ LET fname == snapshot[idx] IN
       /\ pending_uploads' = RemoveFirst(pending_uploads, fname)
       /\ removals' = [d \in Dates |->
                          IF InSeq(pending_uploads, d)
                             /\ ~InSeq(RemoveFirst(pending_uploads, fname), d)
                          THEN removals[d] + 1 ELSE removals[d]]
    /\ wpc' = "for"
    /\ idx' = idx + 1
    /\ UNCHANGED << unitVars, variant, end_date, results, bundles, remote, failures,
                    mainVars, snapshot, uploaded, lookVars, generated,
                    transferred, attempts, failed, checked, handed, sleeps >>

\* time.sleep(5)
W_Sleep ==
    /\ wpc = "sleep"
    /\ wpc' = "while"
    /\ sleeps' = IF uploads_done /\ pending_uploads = << >>
                 THEN Min(sleeps + 1, 2) ELSE sleeps
    /\ UNCHANGED << unitVars, variant, end_date, results, bundles, remote, failures,
                    pending_uploads, mainVars, snapshot, idx, uploaded,
                    lookVars, histVars >>

\* ---------------------------------------------------- lookahead variant
\* One generation call of run_forecasts (lookahead variant): subprocess.run,
\* forecast_queue.append(output_path), next_date += 1.
Generate ==
    /\ \E out \in GenOutcomes : results' = [results EXCEPT ![next_date] = out]
    /\ generated' = Append(generated, next_date)
    /\ forecast_queue' = Append(forecast_queue, next_date)
    /\ next_date' = next_date + 1

\* subset_and_upload(grib): open(grib_path) raises when the file is missing;
\* a fault of the GRIB message loop outside the inner try is not caught;
\* the zip of z blocks is written and sent with one files_upload, which may
\* raise; then the zip, the temp files and the GRIB are removed.  Nothing in
\* run_forecasts catches an exception: it ends the process ("crashed").
SubsetAndUpload(grib, okpc) ==
    /\ handed' = handed \cup {grib}
    /\ attempts' = [attempts EXCEPT ![grib] = @ + 1]
    /\ IF ~isfile(results[grib])
       THEN /\ pc' = "crashed"
            /\ failed' = failed \cup {grib}
            /\ UNCHANGED << results, bundles, remote, failures, transferred >>
       ELSE \/ /\ pc' = "crashed"
               /\ failed' = failed \cup {grib}
               /\ UNCHANGED << results, bundles, remote, failures, transferred >>
            \/ \E z \in BundleSizes :
                 \/ /\ failures < MaxFailures
                    /\ failures' = failures + 1
                    /\ bundles' = [bundles EXCEPT ![grib] =
                                     [state |-> "present", size |-> z, age |-> 0]]
                    /\ failed' = failed \cup {grib}
                    /\ pc' = "crashed"
                    /\ UNCHANGED << results, remote, transferred >>
                 \/ /\ remote' = [remote EXCEPT ![grib] =
                                    [commits |-> @.commits + 1, size |-> z,
                                     via |-> "upload"]]
                    /\ bundles' = [bundles EXCEPT ![grib] =
                                     [state |-> "deleted", size |-> z, age |-> 0]]
                    /\ results' = [results EXCEPT ![grib].state = "deleted"]
                    /\ transferred' = Append(transferred, grib)
                    /\ pc' = okpc
                    /\ UNCHANGED << failures, failed >>

\* for _ in range(2): the bootstrap, one iteration.
L_Boot ==
    /\ variant = "lookahead"
    /\ pc = "boot"
    /\ Generate
    /\ boot_i' = boot_i + 1
    /\ pc' = IF boot_i + 1 = W THEN "loop" ELSE "boot"
    /\ UNCHANGED << unitVars, variant, end_date, bundles, remote, failures,
                    pending_uploads, uploads_done, start_date, workerVars,
                    grib_to_process, transferred, attempts, failed, checked,
                    handed, removals, sleeps >>

\* while next_date <= end_date: grib_to_process = forecast_queue.pop(0)
L_Loop ==
    /\ variant = "lookahead"
    /\ pc = "loop"
    /\ IF next_date <= end_date
       THEN /\ grib_to_process' = Head(forecast_queue)
            /\ forecast_queue' = Tail(forecast_queue)
            /\ pc' = "process"
       ELSE /\ pc' = "drain"
            /\ UNCHANGED << grib_to_process, forecast_queue >>
    /\ UNCHANGED << unitVars, variant, end_date, results, bundles, remote, failures,
                    pending_uploads, uploads_done, start_date, workerVars,
                    next_date, boot_i, histVars, sleeps >>

\* subset_and_upload(grib_to_process) in the main loop
L_Process ==
    /\ variant = "lookahead"
    /\ pc = "process"
    /\ SubsetAndUpload(grib_to_process, "generate")
    /\ UNCHANGED << unitVars, variant, end_date, pending_uploads, uploads_done,
                    start_date, workerVars, lookVars, generated, checked,
                    removals, sleeps >>

\* the next forecast, after the processing has finished
L_Generate ==
    /\ variant = "lookahead"
    /\ pc = "generate"
    /\ Generate
    /\ pc' = "loop"
    /\ UNCHANGED << unitVars, variant, end_date, bundles, remote, failures,
                    pending_uploads, uploads_done, start_date, workerVars,
                    boot_i, grib_to_process, transferred, attempts, failed,
                    checked, handed, removals, sleeps >>

\* while forecast_queue: grib_to_process = forecast_queue.pop(0)
L_Drain ==
    /\ variant = "lookahead"
    /\ pc = "drain"
    /\ IF forecast_queue # << >>
       THEN /\ grib_to_process' = Head(forecast_queue)
            /\ forecast_queue' = Tail(forecast_queue)
            /\ pc' = "drain_process"
       ELSE /\ pc' = "finished"
            /\ UNCHANGED << grib_to_process, forecast_queue >>
    /\ UNCHANGED << unitVars, variant, end_date, results, bundles, remote, failures,
                    pending_uploads, uploads_done, start_date, workerVars,
                    next_date, boot_i, histVars, sleeps >>

\* subset_and_upload(grib_to_process) in the final loop
L_DrainProcess ==
    /\ variant = "lookahead"
    /\ pc = "drain_process"
    /\ SubsetAndUpload(grib_to_process, "drain")
    /\ UNCHANGED << unitVars, variant, end_date, pending_uploads, uploads_done,
                    start_date, workerVars, lookVars, generated, checked,
                    removals, sleeps >>

\* ------------------------------------------------- single calls, replayed
\* The bytes of a file of n blocks: block i holds i.
Content(n) == [i \in 1..n |-> i]

\* What the read before call c returned: the next c.len blocks of the file
\* after those the calls in sent carried (f is read sequentially).
Data(n, sent, c) == SubSeq(Content(n), SumLen(sent) + 1, SumLen(sent) + c.len)

\* The remote store's answer to call c carrying data: files_upload writes the
\* target path; session_start opens a session; session_append_v2 and
\* session_finish are refused unless cursor.offset is the number of bytes
\* the session holds; only session_finish (with its CommitInfo) writes the
\* target path.
RemoteApply(c, data, session, target) ==
    CASE c.op = "upload" ->
           [ok |-> TRUE, session |-> session,
            target |-> [exists |-> TRUE, content |-> data]]
      [] c.op = "start" ->
           [ok |-> TRUE, session |-> data, target |-> target]
      [] c.op = "append" ->
           IF c.offset = Len(session)
           THEN [ok |-> TRUE, session |-> session \o data, target |-> target]
           ELSE [ok |-> FALSE, session |-> session, target |-> target]
      [] OTHER ->
           IF c.offset = Len(session)
           THEN [ok |-> TRUE, session |-> session,
                 target |-> [exists |-> TRUE, content |-> session \o data]]
           ELSE [ok |-> FALSE, session |-> session, target |-> target]

\* The data the calls carried, concatenated in call order.
RECURSIVE Concat(_, _, _)
Concat(n, calls, k) ==
    IF k = 0 THEN << >>
    ELSE Concat(n, calls, k - 1) \o Data(n, SubSeq(calls, 1, k - 1), calls[k])

\* What a whole-file transfer of a file of n blocks leaves at the target path.
WholeFile(n) == RemoteApply(Call("upload", n, 0), Content(n), << >>, Absent).target

\* calls is a prefix of all.
IsPrefix(calls, all) ==
    Len(calls) <= Len(all) /\ calls = SubSeq(all, 1, Len(calls))

\* The files is_file_stable is called on: missing, or of any size and age.
StabInputs ==
    {[state |-> "missing", size |-> 0, age |-> 0]} \cup
    {[state |-> "present", size |-> n, age |-> a] :
        n \in 0..MaxSize, a \in 0..(idle_seconds + 1)}

pipelineVars ==
    << variant, end_date, pc, results, bundles, remote, failures,
       pending_uploads, uploaded, uploads_done, start_date, wpc, snapshot,
       idx, forecast_queue, next_date, boot_i, grib_to_process, generated,
       transferred, attempts, failed, checked, handed, removals, sleeps >>

InitUnit ==
    /\ variant = "unit"
    /\ end_date = 1
    /\ PipelineStart
    /\ e_pc = "calls"
    /\ e_size \in 0..MaxSize
    /\ e_failAt \in 0..Len(RemoteCalls(e_size))
    /\ e_sent = << >>
    /\ e_session = << >>
    /\ e_target = Absent
    /\ e_local = TRUE
    /\ s_file \in StabInputs
    /\ s_result = "none"

\* upload_result_to_dropbox(local_file): its next remote call reaches the
\* remote store (a call the store refuses raises).
E_Call ==
    /\ e_pc = "calls"
    /\ LET r == upload_result_to_dropbox(e_size, e_failAt)
           k == Len(e_sent)
       IN  /\ k < Len(r.acked)
           /\ LET c == r.acked[k + 1]
                  a == RemoteApply(c, Data(e_size, e_sent, c), e_session, e_target)
              IN  IF a.ok
                  THEN /\ e_sent' = Append(e_sent, c)
                       /\ e_session' = a.session
                       /\ e_target' = a.target
                       /\ e_pc' = e_pc
                  ELSE /\ e_pc' = "raised"
                       /\ UNCHANGED << e_sent, e_session, e_target >>
    /\ UNCHANGED << pipelineVars, e_size, e_failAt, e_local, s_file, s_result >>

\* upload_result_to_dropbox(local_file): the call that raises, or
\* os.remove(local_file) and the return.
E_Return ==
    /\ e_pc = "calls"
    /\ LET r == upload_result_to_dropbox(e_size, e_failAt) IN
           /\ Len(e_sent) = Len(r.acked)
           /\ e_pc' = IF r.raised THEN "raised" ELSE "done"
           /\ e_local' = IF r.removed THEN FALSE ELSE e_local
    /\ UNCHANGED << pipelineVars, e_size, e_failAt, e_sent, e_session,
                    e_target, s_file, s_result >>

\* is_file_stable(path) with its default thresholds.
S_Eval ==
    /\ variant = "unit"
    /\ s_result = "none"
    /\ s_result' = IF is_file_stable(s_file) THEN "True" ELSE "False"
    /\ UNCHANGED << pipelineVars, e_pc, e_size, e_failAt, e_sent, e_session,
                    e_target, e_local, s_file >>

\* ------------------------------------------------------- specifications
Main   == Download \/ StartThread \/ Forecast \/ SetDone \/ Join
Worker == W_While \/ W_WhilePending \/ W_Scan \/ W_For \/ W_Upload
            \/ W_Add \/ W_Remove \/ W_Sleep
Look   == L_Boot \/ L_Loop \/ L_Process \/ L_Generate \/ L_Drain \/ L_DrainProcess

Next == Main \/ Worker \/ Look \/ Tick

Spec == Init /\ [][Next]_vars


\* Both threads are scheduled again and again (the main thread is blocked
\* only in join), and time passes; at most MaxFailures remote calls raise.
\* The worker script alone, for the liveness properties of upload_worker.
InitWorker == Init /\ variant = "worker" /\ end_date <= MaxFairDates

NextWorker == Main \/ Worker \/ Tick

FairSpec ==
    InitWorker /\ [][NextWorker]_vars
       /\ WF_vars(Main) /\ WF_vars(Worker) /\ WF_vars(Tick)

\* Single calls of upload_result_to_dropbox and of is_file_stable, on every
\* file size up to MaxSize and with every remote call raising in turn.
NextUnit == E_Call \/ E_Return \/ S_Eval

UnitSpec == InitUnit /\ [][NextUnit]_vars

\* ------------------------------------------------------------ properties
Enqueued == {generated[i] : i \in 1..Len(generated)}

\* C1: a local artifact is deleted if and only if its remote object has been
\* committed in full.  The GRIB (and, in the lookahead variant, its bundle)
\* is gone only once the remote store holds one committed object of the
\* whole size of the file that was sent, a committed artifact is gone, and a
\* transfer call in which a remote call raised leaves the local file where it
\* was.
C1_DeletedIffCommitted ==
    \A d \in Dates :
       /\ results[d].state = "deleted" <=> remote[d].commits >= 1
       /\ (variant = "worker" /\ results[d].state = "deleted")
             => remote[d].size = results[d].size
       /\ bundles[d].state = "deleted"
             => (remote[d].commits >= 1 /\ remote[d].size = bundles[d].size)
       /\ (d \in failed /\ remote[d].commits = 0)
             => /\ results[d].state \in {"present", "missing"}
                /\ bundles[d].state \in {"none", "present"}

\* C1 witness: one upload failed at a remote call and left its file, another
\* chunked upload went through and its file is gone.
C1_Witness ==
    \E d, e \in Dates :
       /\ d \in failed /\ remote[d].commits = 0 /\ isfile(results[d])
       /\ results[e].state = "deleted" /\ remote[e].size > CHUNK_SIZE + 1

\* C2: upload_worker has returned only if uploads_done is set and
\* pending_uploads is empty, and then every name ever appended has been
\* uploaded and removed.
C2_ExitOnlyWhenDrained ==
    wpc = "exited" =>
       /\ uploads_done
       /\ pending_uploads = << >>
       /\ \A d \in Enqueued :
             d \in uploaded /\ remote[d].commits >= 1 /\ removals[d] = 1

\* C2 witness: the worker has returned after at least two artifacts.
C2_Witness == wpc = "exited" /\ Len(generated) >= 2

\* C3: once uploads_done is set and pending_uploads is empty the worker
\* returns and the join of the main thread returns, after at most one more
\* time.sleep(5); and the worker does not return before.
C3_DrainTerminates ==
    /\ (variant = "worker" /\ wpc # "unstarted" /\ uploads_done
           /\ pending_uploads = << >>) ~> (wpc = "exited" /\ pc = "finished")
    /\ [](sleeps <= 1)
    /\ [](wpc = "exited" => (uploads_done /\ pending_uploads = << >>))

\* C3 witness: the run has ended and the worker slept once more after the
\* drain condition came to hold.
C3_Witness == pc = "finished" /\ variant = "worker" /\ sleeps = 1

\* C4: K generation calls, one per date of the range and none for a later
\* date, and K transfer attempts, one per job, when the run has ended.
C4_ExactlyKCalls ==
    /\ \A i \in 1..Len(generated) : generated[i] <= end_date
    /\ pc = "finished" =>
          /\ Len(generated) = end_date
          /\ \A d \in 1..end_date : attempts[d] = 1

\* C5: artifacts are transferred in the order their jobs were generated: the
\* committed uploads are, in order, the first generated artifacts.
C5_FIFO ==
    /\ Len(transferred) <= Len(generated)
    /\ \A i \in 1..Len(transferred) : transferred[i] = generated[i]

\* C6: at most W artifacts are generated and not yet transferred, in
\* forecast_queue and in pending_uploads.
C6_WindowBound ==
    Len(forecast_queue) <= W /\ Len(pending_uploads) <= W

\* C7: every artifact handed to subset_and_upload or upload_result_to_dropbox
\* has had the stability predicate evaluated to true before.
C7_StableBeforeTransfer == handed \subseteq checked

\* C8: a failure in post-processing or transfer for one job does not abort
\* the date loop: the main thread does not end on it, and when the run has
\* ended every date of the range was generated and its transfer attempted.
C8_FailureDoesNotAbort ==
    /\ pc # "crashed"
    /\ (failed # {} /\ pc = "finished") =>
           \A d \in 1..end_date : d \in Enqueued /\ attempts[d] >= 1

\* C9: every name appended to pending_uploads is removed from it once, and
\* only after its upload succeeded; no name is uploaded twice; a failed
\* attempt leaves the name in pending_uploads and out of uploaded.
C9_ExactlyOnce ==
    variant = "worker" =>
       \A d \in Dates :
          /\ removals[d] <= 1
          /\ remote[d].commits <= 1
          /\ removals[d] = 1 => (d \in uploaded /\ ~InSeq(pending_uploads, d))
          /\ d \in uploaded => (remote[d].commits = 1 /\ ~isfile(results[d]))
          /\ (d \in Enqueued /\ d \notin uploaded) => InSeq(pending_uploads, d)
          /\ (d \in failed /\ remote[d].commits = 0)
                => (InSeq(pending_uploads, d) /\ d \notin uploaded)
          /\ (wpc = "exited" /\ d \in Enqueued) => removals[d] = 1

\* C9 witness: an artifact whose first upload failed has been uploaded and
\* removed from pending_uploads.
C9_Witness ==
    \E d \in Dates : d \in failed /\ removals[d] = 1 /\ attempts[d] = 2

\* C10: an artifact whose upload failed stays pending, is tried again on a
\* later poll and is then uploaded, with one remote object; the failure does
\* not end the worker loop.
C10_RetrySucceeds ==
    /\ (variant = "worker" /\ failed # {})
          ~> \A d \in failed :
                /\ d \in uploaded /\ ~InSeq(pending_uploads, d)
                /\ remote[d].commits = 1 /\ attempts[d] >= 2
    /\ [](variant = "worker" =>
            \A d \in failed :
               /\ remote[d].commits <= 1
               /\ d \notin uploaded =>
                     (InSeq(pending_uploads, d) /\ wpc \notin {"exited", "crashed"}))

\* C10 witness: the worker has returned after an artifact failed once and
\* succeeded on its second attempt.
C10_Witness ==
    \E d \in Dates :
       d \in failed /\ d \in uploaded /\ attempts[d] = 2 /\ wpc = "exited"

\* C11: no partial remote object is visible at the target path: the path is
\* untouched or holds the whole file, whichever remote call raised; while
\* only session_start and session_append calls were acknowledged it is
\* untouched; and the local file is gone only when the path holds the file.
C11_NoPartialObject ==
    e_pc # "off" =>
       /\ \/ e_target = Absent
          \/ e_target = [exists |-> TRUE, content |-> Content(e_size)]
       /\ (\A i \in 1..Len(e_sent) : e_sent[i].op \in {"start", "append"})
             => e_target = Absent
       /\ ~e_local => e_target.exists

\* C11 witness: session_finish raised after a start and an append were
\* acknowledged, and the target path is untouched.
C11_Witness ==
    /\ e_pc = "raised" /\ Len(e_sent) = 2 /\ e_sent[2].op = "append"
    /\ e_target = Absent /\ e_failAt = 3

\* C12: when upload_result_to_dropbox returns, the chunks its calls carried,
\* concatenated in call order, are the file's content, and the target path
\* holds what a whole-file transfer of the same file leaves there, for every
\* size from 0 to MaxSize (below, at and above CHUNK_SIZE, and its multiples).
C12_ChunkedEqualsWhole ==
    e_pc = "done" =>
       /\ Concat(e_size, e_sent, Len(e_sent)) = Content(e_size)
       /\ e_target = WholeFile(e_size)

\* C12 witness: a file of exactly two chunks went through a session and the
\* function returned.
C12_Witness ==
    /\ e_pc = "done" /\ e_size = 2 * CHUNK_SIZE
    /\ e_sent[1].op = "start" /\ e_sent[Len(e_sent)].op = "finish"

\* C13: is_file_stable returns False (it does not raise) when the path does
\* not exist; on an existing file it returns True exactly when the size is at
\* least min_size_bytes and the time since modification at least idle_seconds.
C13_StableIffBoth ==
    s_result # "none" =>
       /\ s_result \in {"True", "False"}
       /\ s_file.state = "missing" => s_result = "False"
       /\ s_file.state = "present" =>
             (s_result = "True" <=>
                 (s_file.size >= min_size_bytes /\ s_file.age >= idle_seconds))
       /\ (s_file.state = "present" /\ s_file.size < min_size_bytes)
             => s_result = "False"
       /\ (s_file.state = "present" /\ s_file.age < idle_seconds)
             => s_result = "False"

\* C13 witness: a file exactly at both thresholds was found stable.
C13_Witness ==
    /\ s_result = "True" /\ s_file.state = "present"
    /\ s_file.size = min_size_bytes /\ s_file.age = idle_seconds

\* C14: the remote calls of upload_result_to_dropbox have a fixed shape.  A
\* file of at most CHUNK_SIZE gets exactly one files_upload and no session
\* call; a larger file gets one session_start with a full first chunk, then
\* session_appends of full chunks, then exactly one session_finish with the
\* last chunk, which is not empty and at most CHUNK_SIZE; nothing follows the
\* finish, and the function does not return from the loop without a finish.
C14_ProtocolShape ==
    e_pc # "off" =>
       LET calls == RemoteCalls(e_size)
           n     == Len(calls)
       IN  /\ IsPrefix(e_sent, calls)
           /\ e_pc = "done" => e_sent = calls
           /\ e_pc = "raised" => e_failAt = Len(e_sent) + 1
           /\ e_size <= CHUNK_SIZE => calls = << Call("upload", e_size, 0) >>
           /\ e_size > CHUNK_SIZE =>
                 /\ n >= 2
                 /\ calls[1].op = "start" /\ calls[1].len = CHUNK_SIZE
                 /\ \A i \in 2..(n - 1) :
                       calls[i].op = "append" /\ calls[i].len = CHUNK_SIZE
                 /\ calls[n].op = "finish"
                 /\ calls[n].len \in 1..CHUNK_SIZE
                 /\ e_pc = "done" => e_sent[Len(e_sent)].op = "finish"

\* C14 witness: a session of a start, an append and a finish with a short
\* last chunk, after which the function returned.
C14_Witness ==
    /\ e_pc = "done" /\ Len(e_sent) = 3
    /\ e_sent[1].op = "start" /\ e_sent[2].op = "append"
    /\ e_sent[3].op = "finish" /\ e_sent[3].len < CHUNK_SIZE

\* C15: in a chunked upload the cursor offset of every session_append and of
\* the session_finish is the number of bytes the earlier calls of the session
\* carried, it grows strictly from call to call, and the offset of the finish
\* plus the length of its chunk is the file size; the remote store, which
\* holds that many bytes in the session, refuses none of the calls.
C15_CursorOffset ==
    (e_pc # "off" /\ e_size > CHUNK_SIZE) =>
       LET calls == RemoteCalls(e_size)
           n     == Len(calls)
       IN  /\ \A i \in 2..n : calls[i].offset = SumLen(SubSeq(calls, 1, i - 1))
           /\ \A i \in 2..n : calls[i].offset > calls[i - 1].offset
           /\ calls[n].offset + calls[n].len = e_size
           /\ IsPrefix(e_sent, calls)
           /\ (e_sent # << >> /\ e_sent[Len(e_sent)].op # "finish")
                 => Len(e_session) = SumLen(e_sent)
           /\ e_pc = "raised" => e_failAt = Len(e_sent) + 1

\* C15 witness: a session whose append was sent at offset CHUNK_SIZE and whose
\* finish was sent at offset 2 * CHUNK_SIZE, and the function returned.
C15_Witness ==
    /\ e_pc = "done" /\ Len(e_sent) = 3
    /\ e_sent[2].offset = CHUNK_SIZE
    /\ e_sent[3].offset = 2 * CHUNK_SIZE
    /\ e_sent[3].offset + e_sent[3].len = e_size

\* C16: uploads_done is set only after run_forecasts has made its last
\* append: whenever the flag is set the main thread is past run_forecasts, a
\* generation call was made and its name appended for every date of the
\* range, and each name is still pending or was uploaded; so a worker that
\* reads the flag set and the list empty leaves nothing to be enqueued.
C16_DoneAfterLastAppend ==
    uploads_done =>
       /\ pc \in {"join", "finished"}
       /\ start_date > end_date
       /\ generated = [i \in 1..end_date |-> i]
       /\ \A d \in 1..end_date : InSeq(pending_uploads, d) \/ d \in uploaded

\* C16 witness: the worker reads the list empty after reading the flag set,
\* with the artifacts of at least two dates enqueued and uploaded.
C16_Witness ==
    /\ uploads_done /\ wpc = "while_pending" /\ pending_uploads = << >>
    /\ Len(generated) = end_date /\ end_date >= 2

\* The enqueued names whose file was not written or is below
\* min_size_bytes; the generation call has returned, so the file does not
\* change any more.
NeverStable ==
    {d \in Enqueued :
        \/ results[d].state = "missing"
        \/ isfile(results[d]) /\ results[d].size < min_size_bytes}

\* C17: a pending entry whose file does not exist or never becomes stable is
\* never uploaded and never removed: it stays in pending_uploads, no transfer
\* call is made for it, nothing is committed at its path, and the worker
\* does not return (nor the join of the main thread), also after
\* uploads_done is set.
C17_NeverStableStaysPending ==
    variant = "worker" =>
       \A d \in NeverStable :
          /\ InSeq(pending_uploads, d)
          /\ d \notin uploaded /\ d \notin checked
          /\ attempts[d] = 0 /\ removals[d] = 0
          /\ remote[d].commits = 0
          /\ wpc # "exited"
          /\ pc # "finished"

\* C17 witness: uploads_done is set and the worker sleeps after a scan that
\* uploaded one artifact and left two pending, one whose file is missing and
\* one idle for idle_seconds but below min_size_bytes.
C17_Witness ==
    /\ variant = "worker" /\ uploads_done /\ wpc = "sleep"
    /\ uploaded # {}
    /\ \E d \in NeverStable : results[d].state = "missing"
    /\ \E d \in NeverStable :
          isfile(results[d]) /\ results[d].age >= idle_seconds

\* C18: the transfer step of the lookahead variant follows the size rule of
\* upload_result_to_dropbox: a bundle committed at the remote store went by
\* one files_upload exactly when its size is at most CHUNK_SIZE, and by an
\* upload session otherwise.
C18_LookaheadSizeRule ==
    variant = "lookahead" =>
       \A d \in Dates :
          remote[d].commits >= 1 =>
             /\ remote[d].via \in {"upload", "finish"}
             /\ remote[d].via = "upload" <=> remote[d].size <= CHUNK_SIZE

\* When download_folder raises, the run ends before any job: no generation
\* call was made, upload_worker was not started and nothing was transferred.
AbortBeforeAnyJob ==
    pc = "aborted" =>
       /\ generated = << >> /\ transferred = << >> /\ handed = {}
       /\ wpc = "unstarted" /\ pending_uploads = << >>
       /\ \A d \in Dates : attempts[d] = 0 /\ remote[d].commits = 0

\* C19: only a fault of the bootstrap is fatal, and it aborts before any job:
\* the run never ends by an exception other than one of download_folder, and
\* when download_folder raises no generation call is made, the worker is not
\* started and nothing is uploaded, in both variants.
C19_OnlyBootstrapFatal ==
    /\ AbortBeforeAnyJob
    /\ pc # "crashed"

\* The pending names the scan in progress does not hold: they were appended
\* by run_forecasts after the copy list(pending_uploads) was taken.
AppendedDuringScan ==
    IF wpc \in {"for", "upload", "add", "remove", "sleep"}
    THEN {d \in Dates : InSeq(pending_uploads, d) /\ ~InSeq(snapshot, d)}
    ELSE {}

\* C20: in every interleaving of the appends of run_forecasts with the copy,
\* upload and remove steps of upload_worker no enqueued name is lost: every
\* appended name is still in pending_uploads or was uploaded and committed; a
\* name leaves pending_uploads only by the worker's remove, which removes the
\* name it just uploaded and no other; and a name appended during a scan is
\* held by the copy of a later scan.
C20_NoNameLost ==
    /\ [](\A d \in Enqueued :
             \/ InSeq(pending_uploads, d)
             \/ d \in uploaded /\ remote[d].commits >= 1)
    /\ [][\A d \in Dates :
             (InSeq(pending_uploads, d) /\ ~InSeq(pending_uploads', d)) =>
                /\ wpc = "remove" /\ d = snapshot[idx] /\ d \in uploaded
                /\ \A e \in Dates \ {d} :
                      InSeq(pending_uploads, e) => InSeq(pending_uploads', e)]_vars
    /\ (AppendedDuringScan # {})
          ~> (/\ wpc = "for" /\ idx = 1 /\ AppendedDuringScan = {}
              /\ \A d \in Enqueued \ uploaded : InSeq(snapshot, d))

\* C20 witness: run_forecasts appended the second name while the worker,
\* whose copy holds the first name only, is about to remove that name.
C20_Witness ==
    /\ wpc = "remove" /\ snapshot = << 1 >> /\ idx = 1
    /\ pending_uploads = << 1, 2 >> /\ AppendedDuringScan = {2}

=============================================================================
